---- MODULE Spec2Model ----
(***************************************************************************)
(* Model of src/window.go: the focused-window-creation protocol            *)
(* (windowCreateWithFocus) of the "window create --focus" command, and     *)
(* the AppleScript payloads it composes, as executed by the automation     *)
(* host.                                                                   *)
(*                                                                         *)
(* Text is modelled as a sequence of one-character strings, so that        *)
(* escaping, trimming, quoting and substring tests are computed the way    *)
(* the code computes them.  Time is counted in half time units, so that    *)
(* "delay 1" is 2 and "delay 0.5" is 1.                                    *)
(***************************************************************************)
EXTENDS Integers, Sequences, FiniteSets, TLC

\* ------------------------------------------------------------------ bounds

\* Longest search string drawn as input.
MaxLen == 2

\* Most tabs the front window shows in one attempt.
MaxTabs == 2

\* Most windows the application has besides the one the payload creates.
MaxOther == 2

\* Most identifiers given to the close command.
MaxArgs == 2

\* --------------------------------------------------------- program constants

\* `set maxRetries to 10`
maxRetries == 10

\* `delay 1` after the window is made, in half time units.
SettleDelay == 2

\* `delay 0.5` between attempts, in half time units.
RetryDelay == 1

\* ------------------------------------------------------------------- text

BS == "\\"
DQ == "\""

\* The characters search strings are drawn from: a letter, backslash, quote.
Alphabet == {"A", BS, DQ}

RECURSIVE StringsOfLen(_)
StringsOfLen(n) ==
    IF n = 0 THEN {<< >>}
    ELSE { <<c>> \o s : c \in Alphabet, s \in StringsOfLen(n - 1) }

\* windowCreateWithFocus is only entered with a non-empty --focus value.
SearchStrings == UNION { StringsOfLen(n) : n \in 1..MaxLen }

\* strings.ReplaceAll for a non-empty old: non-overlapping, left to right.
RECURSIVE ReplaceAll(_, _, _)
ReplaceAll(s, old, new) ==
    IF Len(s) < Len(old) THEN s
    ELSE IF SubSeq(s, 1, Len(old)) = old
         THEN new \o ReplaceAll(SubSeq(s, Len(old) + 1, Len(s)), old, new)
         ELSE <<Head(s)>> \o ReplaceAll(Tail(s), old, new)

\* Variant of the escaping step with the two replacements in the wrong order.
EscapeQuotesFirst(s) ==
    ReplaceAll(ReplaceAll(s, <<DQ>>, <<BS, DQ>>), <<BS>>, <<BS, BS>>)

\* escaped := ReplaceAll(search, `\`, `\\`); escaped = ReplaceAll(escaped, `"`, `\"`)
Escape(s) ==
    ReplaceAll(ReplaceAll(s, <<BS>>, <<BS, BS>>), <<DQ>>, <<BS, DQ>>)

WhiteSpace == {" ", "\n", "\t", "\r"}

RECURSIVE TrimLeft(_)
TrimLeft(s) ==
    IF s # << >> /\ Head(s) \in WhiteSpace THEN TrimLeft(Tail(s)) ELSE s

RECURSIVE TrimRight(_)
TrimRight(s) ==
    IF s # << >> /\ s[Len(s)] \in WhiteSpace
    THEN TrimRight(SubSeq(s, 1, Len(s) - 1)) ELSE s

\* strings.TrimSpace
TrimSpace(s) == TrimRight(TrimLeft(s))

\* Whether needle occurs in hay as a contiguous run.
Contains(hay, needle) ==
    \E i \in 1..(Len(hay) - Len(needle) + 1) :
        SubSeq(hay, i, i + Len(needle) - 1) = needle

Lower(c) == IF c = "A" THEN "a" ELSE c

LowerStr(s) == [i \in 1..Len(s) |-> Lower(s[i])]

\* AppleScript `ignoring case ... contains`.
ContainsIgnoringCase(hay, needle) == Contains(LowerStr(hay), LowerStr(needle))


NotFoundStr == <<"n", "o", "t", "_", "f", "o", "u", "n", "d">>
FoundStr == <<"f", "o", "u", "n", "d">>
FalseStr == <<"f", "a", "l", "s", "e">>
TrueStr == <<"t", "r", "u", "e">>

\* "no tab found with title containing " of the error format.
ErrPrefix ==
    <<"n", "o", " ", "t", "a", "b", " ", "f", "o", "u", "n", "d", " ",
      "w", "i", "t", "h", " ", "t", "i", "t", "l", "e", " ",
      "c", "o", "n", "t", "a", "i", "n", "i", "n", "g", " ">>

RECURSIVE QuoteBody(_)
QuoteBody(s) ==
    IF s = << >> THEN << >>
    ELSE (IF Head(s) \in {BS, DQ} THEN <<BS, Head(s)>> ELSE <<Head(s)>>)
         \o QuoteBody(Tail(s))

\* The %q verb of fmt on a string of printable characters: strconv.Quote.
GoQuote(s) == <<DQ>> \o QuoteBody(s) \o <<DQ>>

\* Variant of the error text built from the escaped form of the search string.
NotFoundTextOfEscaped(s) == ErrPrefix \o GoQuote(Escape(s))

\* fmt.Errorf("no tab found with title containing %q", search)
NotFoundText(s) == ErrPrefix \o GoQuote(s)

\* How the script host reads the text placed between the quotes of
\* `contains "%s"`: backslash takes the next character (backslash or quote)
\* literally, a bare quote ends the literal early, which makes the rest of the
\* payload a syntax error.
RECURSIVE ParseLiteral(_)
ParseLiteral(e) ==
    IF e = << >> THEN [ok |-> TRUE, val |-> << >>]
    ELSE IF Head(e) = DQ THEN [ok |-> FALSE, val |-> << >>]
    ELSE IF Head(e) = BS
         THEN IF Len(e) >= 2 /\ e[2] \in {BS, DQ}
              THEN LET r == ParseLiteral(SubSeq(e, 3, Len(e)))
                   IN  [ok |-> r.ok, val |-> <<e[2]>> \o r.val]
              ELSE [ok |-> FALSE, val |-> << >>]
    ELSE LET r == ParseLiteral(Tail(e))
         IN  [ok |-> r.ok, val |-> <<Head(e)>> \o r.val]

\* ------------------------------------------------------------ environment

\* Titles a tab of the new window can show.
TitleQuote == <<"a", DQ>>
TitleSlash == <<BS, "a">>

\* A tab: its title, and whether `title of aTab` can be read.
TabPool ==
    { [readable |-> TRUE, title |-> TitleQuote],
      [readable |-> TRUE, title |-> TitleSlash],
      [readable |-> FALSE, title |-> TitleQuote] }

RECURSIVE TabListsOfLen(_)
TabListsOfLen(n) ==
    IF n = 0 THEN {<< >>}
    ELSE { <<t>> \o l : t \in TabPool, l \in TabListsOfLen(n - 1) }

TabLists == UNION { TabListsOfLen(n) : n \in 0..MaxTabs }

\* What runApplescript can hand back for `application "Arc" is running`.
ProbeReplies ==
    { [err |-> FALSE, out |-> TrueStr \o <<"\n">>],
      [err |-> FALSE, out |-> FalseStr \o <<"\n">>],
      [err |-> FALSE, out |-> <<" ">> \o FalseStr],
      [err |-> FALSE, out |-> <<"F", "a", "l", "s", "e", "\n">>],
      [err |-> TRUE, out |-> << >>],
      [err |-> TRUE, out |-> FalseStr \o <<"\n">>] }

NoReply == [err |-> FALSE, out |-> << >>]

\* Failures the script executor can report for a payload.
HostErrors == {"execution error", "host unreachable"}

NoResult == [kind |-> "none", err |-> "", text |-> << >>]


\* ------------------------------------------------------------------ state

VARIABLES
    search,       \* the --focus value handed to windowCreateWithFocus
    incognito,    \* the --incognito flag
    pc,           \* where windowCreateWithFocus stands
    wasRunning,   \* the local of that name
    probeReply,   \* what the probe call returned
    escaped,      \* the local of that name
    payload,      \* the composed primary payload: its two parameters
    output,       \* raw output of the primary payload
    result,       \* what the command returned
    raised,       \* the error the script executor handed back, "" if none
    args,         \* the command's positional arguments
    argPos,       \* the close command's place in its arguments
    calls,        \* close calls issued by the close command, in order
    trace,        \* payloads issued and returned, and the final return, in order
    hpc,          \* where the script host stands in the payload it runs
    needle,       \* the text the host tests titles against
    attempt,      \* `attempt` of the retry loop
    tabs,         \* `every tab` of the front window in this attempt
    tabPos,       \* place of `aTab` in `every tab`
    tabIndex,     \* `tabIndex` of the scan
    delay,        \* time spent in `delay`, in half time units
    selected,     \* index of the tab selected in the front window, 0 if none
    activated,    \* whether the payload has run `activate`
    sentinel,     \* what the primary payload returned
    firstMatch,   \* first attempt whose tabs held a readable matching title, 0 if none
    windows,      \* the application's windows, front first
    closeIdx,     \* `i` of the cleanup loop
    closed        \* indices closed by the cleanup payload, in order

cli == <<args, argPos, calls>>
ctl == <<cli, search, incognito, pc, wasRunning, probeReply, escaped, payload,
         output, result, raised, trace>>
host == <<hpc, needle, attempt, tabs, tabPos, tabIndex, delay, selected,
          activated, sentinel, firstMatch, windows, closeIdx, closed>>
vars == <<ctl, host>>

Init ==
    /\ search \in SearchStrings
    /\ incognito \in BOOLEAN
    /\ pc = "probe"
    /\ wasRunning = TRUE
    /\ probeReply = NoReply
    /\ escaped = << >>
    /\ payload = [incognito |-> FALSE, literal |-> << >>]
    /\ output = << >>
    /\ result = NoResult
    /\ raised = ""
    /\ args = << >>
    /\ argPos = 0
    /\ calls = << >>
    /\ trace = << >>
    /\ hpc = "idle"
    /\ needle = << >>
    /\ attempt = 0
    /\ tabs = << >>
    /\ tabPos = 0
    /\ tabIndex = 0
    /\ delay = 0
    /\ selected = 0
    /\ activated = FALSE
    /\ sentinel = << >>
    /\ firstMatch = 0
    /\ windows = << >>
    /\ closeIdx = 0
    /\ closed = << >>

\* ------------------------------------------------- windowCreateWithFocus

\* Variant of the probe that looks at the output alone.
ProbeIgnoringError(reply) == ~(TrimSpace(reply.out) = FalseStr)

\* wasRunning := true; if err == nil && TrimSpace(out) == "false" { wasRunning = false }
ProbeWasRunning(reply) ==
    ~(reply.err = FALSE /\ TrimSpace(reply.out) = FalseStr)

Probe ==
    /\ pc = "probe"
    /\ \E r \in ProbeReplies :
        /\ probeReply' = r
        /\ wasRunning' = ProbeWasRunning(r)
        /\ trace' = <<"probe", IF r.err THEN "probe_err" ELSE "probe_ret">>
    /\ pc' = "compose"
    /\ UNCHANGED <<cli, search, incognito, escaped, payload, output, result,
                   raised, host>>

\* Variant that sets wasRunning anew after the probe.
ComposeForgettingProbe ==
    /\ pc = "compose"
    /\ escaped' = Escape(search)
    /\ payload' = [incognito |-> incognito, literal |-> Escape(search)]
    /\ probeReply' = NoReply
    /\ wasRunning' = TRUE
    /\ pc' = "primary"
    /\ UNCHANGED <<cli, search, incognito, output, result, raised, trace, host>>

\* The probe's `out` and `err` are not read again once wasRunning is set.
Compose ==
    /\ pc = "compose"
    /\ escaped' = Escape(search)
    /\ payload' = [incognito |-> incognito, literal |-> Escape(search)]
    /\ probeReply' = NoReply
    /\ pc' = "primary"
    /\ UNCHANGED <<cli, search, incognito, wasRunning, output, result, raised,
                   trace, host>>

\* output, err := runApplescript(applescript): the payload reaches the host.
IssuePrimary ==
    /\ pc = "primary"
    /\ trace' = Append(trace, "primary")
    /\ pc' = "primary_wait"
    /\ hpc' = IF ParseLiteral(payload.literal).ok THEN "make" ELSE "fault"
    /\ needle' = ParseLiteral(payload.literal).val
    /\ UNCHANGED <<cli, search, incognito, wasRunning, probeReply, escaped, payload,
                   output, result, raised>>
    /\ UNCHANGED <<attempt, tabs, tabPos, tabIndex, delay, selected, activated,
                   sentinel, firstMatch, windows, closeIdx, closed>>

\* Variant that returns an error of its own in place of the executor's.
ReturnErrWrapped(e) ==
    [kind |-> "transport", err |-> "window create failed", text |-> << >>]

\* `return err`: the executor's error, as it is.
ReturnErr(e) == [kind |-> "transport", err |-> e, text |-> << >>]

\* Variant that runs the cleanup on the way out of a failed primary payload.
PrimaryFailThenCleanup ==
    /\ pc = "primary_wait"
    /\ hpc \in {"fault", "make", "attempt"}
    /\ \E e \in HostErrors :
        /\ raised' = e
        /\ result' = ReturnErr(e)
    /\ trace' = IF wasRunning
                THEN Append(Append(trace, "primary_err"), "return")
                ELSE Append(trace, "primary_err")
    /\ pc' = IF wasRunning THEN "done" ELSE "cleanup"
    /\ hpc' = "idle"
    /\ UNCHANGED <<cli, search, incognito, wasRunning, probeReply, escaped,
                   payload, output>>
    /\ UNCHANGED <<needle, attempt, tabs, tabPos, tabIndex, delay, selected,
                   activated, sentinel, firstMatch, windows, closeIdx, closed>>

\* if err != nil { return err }: the host rejects the payload, cannot be
\* reached, or a statement outside the `try` block faults.
PrimaryFail ==
    /\ pc = "primary_wait"
    /\ hpc \in {"fault", "make", "attempt"}
    /\ \E e \in HostErrors :
        /\ raised' = e
        /\ result' = ReturnErr(e)
    /\ trace' = Append(Append(trace, "primary_err"), "return")
    /\ pc' = "done"
    /\ hpc' = "idle"
    /\ UNCHANGED <<cli, search, incognito, wasRunning, probeReply, escaped, payload,
                   output>>
    /\ UNCHANGED <<needle, attempt, tabs, tabPos, tabIndex, delay, selected, activated,
                   sentinel, firstMatch, windows, closeIdx, closed>>

\* Variant that skips the cleanup when the search failed.
AfterPrimaryFoundOnly(wr, out) ==
    IF ~wr /\ TrimSpace(out) # NotFoundStr THEN "cleanup" ELSE "interpret"

\* if !wasRunning { ...cleanup... } comes before the not_found test.
AfterPrimary(wr, out) == IF ~wr THEN "cleanup" ELSE "interpret"

PrimaryReturn ==
    /\ pc = "primary_wait"
    /\ hpc = "returned"
    /\ output' = sentinel \o <<"\n">>
    /\ trace' = Append(trace, "primary_ret")
    /\ pc' = AfterPrimary(wasRunning, sentinel \o <<"\n">>)
    /\ hpc' = "idle"
    /\ needle' = << >>
    /\ attempt' = 0
    /\ tabs' = << >>
    /\ tabPos' = 0
    /\ tabIndex' = 0
    /\ UNCHANGED <<cli, search, incognito, wasRunning, probeReply, escaped, payload,
                   result, raised>>
    /\ UNCHANGED <<delay, selected, activated, sentinel, firstMatch, windows,
                   closeIdx, closed>>


\* --------------------------------------- the primary payload, in the host

OtherWindows(n) == [i \in 1..n |-> [id |-> i, incognito |-> FALSE]]

\* `make new window [with properties {incognito:true}]`, `delay 1`, and the
\* retry loop's first value of `attempt`.  The new window is the front one.
HostMakeWindow ==
    /\ hpc = "make"
    /\ windows' = <<[id |-> 0, incognito |-> payload.incognito]>>
    /\ delay' = SettleDelay
    /\ attempt' = 1
    /\ hpc' = "attempt"
    /\ UNCHANGED <<ctl, needle, tabs, tabPos, tabIndex, selected, activated, sentinel,
                   firstMatch, closeIdx, closed>>

\* Whether some tab of l has a readable title containing s, letter case aside.
HasMatch(l, s) ==
    \E i \in 1..Len(l) :
        l[i].readable /\ ContainsIgnoringCase(l[i].title, s)

\* `tell front window`, `set tabIndex to 1`, `every tab`: the tabs as they
\* are when the attempt begins; titles may have loaded since the last one.
HostBeginAttempt ==
    /\ hpc = "attempt"
    /\ \E l \in TabLists :
        /\ tabs' = l
        /\ firstMatch' = IF firstMatch = 0 /\ HasMatch(l, search)
                         THEN attempt ELSE firstMatch
    /\ tabPos' = 1
    /\ tabIndex' = 1
    /\ hpc' = "scan"
    /\ UNCHANGED <<ctl, needle, attempt, delay, selected, activated, sentinel,
                   windows, closeIdx, closed>>

\* Variant of the title test that compares letter case.
TabMatchesExactCase(tab, n) == tab.readable /\ Contains(tab.title, n)

\* Variant of the title test that lets a failed title read through.
TabMatchesUnread(tab, n) == ContainsIgnoringCase(tab.title, n)

\* try / set tabTitle to title of aTab / ignoring case / if tabTitle contains:
\* a failed read leaves the `try` block without testing.
TabMatches(tab, n) == tab.readable /\ ContainsIgnoringCase(tab.title, n)

\* Variant of the scan that goes on to the next tab after a match.
ScanGoesOn(tab, n) == "next"

\* What the scan does with one tab: `return "found"`, or the next tab.
ScanStep(tab, n) == IF TabMatches(tab, n) THEN "found" ELSE "next"

\* Variant with the `try` block around the whole `repeat`: a failed title
\* read leaves the scan of this attempt.
NextTabPosUnlessFailed(tab, p, len) == IF tab.readable THEN p + 1 ELSE len + 1

\* `repeat with aTab in every tab` goes on to the next tab, whether or not
\* the `try` block was left early.
NextTabPos(tab, p, len) == p + 1

\* Variant with the increment inside the `try` block, after the title read.
NextTabIndexInsideTry(tab, i) == IF tab.readable THEN i + 1 ELSE i

\* `set tabIndex to tabIndex + 1`, after `end try`.
NextTabIndex(tab, i) == i + 1

\* One pass of `repeat with aTab in every tab`: aTab is the tab at tabPos,
\* and a match selects `tab tabIndex` of the front window.
HostScanTab ==
    /\ hpc = "scan"
    /\ tabPos <= Len(tabs)
    /\ IF ScanStep(tabs[tabPos], needle) = "found"
       THEN /\ selected' = tabIndex
            /\ activated' = TRUE
            /\ sentinel' = FoundStr
            /\ hpc' = "returned"
            /\ UNCHANGED <<tabPos, tabIndex>>
       ELSE /\ tabPos' = NextTabPos(tabs[tabPos], tabPos, Len(tabs))
            /\ tabIndex' = NextTabIndex(tabs[tabPos], tabIndex)
            /\ UNCHANGED <<selected, activated, sentinel, hpc>>
    /\ UNCHANGED <<ctl, needle, attempt, tabs, delay, firstMatch, windows,
                   closeIdx, closed>>

\* Variant that also waits after the last attempt.
DelayAfterEvery(k) == RetryDelay

\* `if attempt < maxRetries then delay 0.5`
DelayAfter(k) == IF k < maxRetries THEN RetryDelay ELSE 0

\* Variant of the loop bound that stops one attempt early.
LoopStopsEarly(k) == k < maxRetries - 1

\* `repeat with attempt from 1 to maxRetries`
LoopContinues(k) == k < maxRetries

\* The end of one attempt's scan: the delay, then the next attempt, or
\* `activate` and `return "not_found"`.
HostEndAttempt ==
    /\ hpc = "scan"
    /\ tabPos > Len(tabs)
    /\ delay' = delay + DelayAfter(attempt)
    /\ IF LoopContinues(attempt)
       THEN /\ attempt' = attempt + 1
            /\ hpc' = "attempt"
            /\ UNCHANGED <<activated, sentinel>>
       ELSE /\ activated' = TRUE
            /\ sentinel' = NotFoundStr
            /\ hpc' = "returned"
            /\ UNCHANGED attempt
    /\ UNCHANGED <<ctl, needle, tabs, tabPos, tabIndex, selected, firstMatch, windows,
                   closeIdx, closed>>

\* ------------------------------------------------------------- cleanup

\* if !wasRunning { runApplescript(`... close window i ...`) }
IssueCleanup ==
    /\ pc = "cleanup"
    /\ trace' = Append(trace, "cleanup")
    /\ pc' = "cleanup_wait"
    /\ hpc' = "count"
    /\ UNCHANGED <<cli, search, incognito, wasRunning, probeReply, escaped, payload,
                   output, result, raised>>
    /\ UNCHANGED <<needle, attempt, tabs, tabPos, tabIndex, delay, selected, activated,
                   sentinel, firstMatch, windows, closeIdx, closed>>

\* `set windowCount to count of windows`, `repeat with i from windowCount`.
\* The windows behind the new one (those the application had, or opened on
\* launch) are read here for the first time, so they are drawn here.
HostCount ==
    /\ hpc = "count"
    /\ \E n \in 0..MaxOther :
        /\ windows' = windows \o OtherWindows(n)
        /\ closeIdx' = Len(windows) + n
    /\ hpc' = "closing"
    /\ UNCHANGED <<ctl, needle, attempt, tabs, tabPos, tabIndex, delay, selected,
                   activated, sentinel, firstMatch, closed>>

\* Variant that closes the front window whatever the index.
RemoveFront(s, i) == Tail(s)

\* What `close window i` leaves of the windows.
RemoveAt(s, i) == SubSeq(s, 1, i - 1) \o SubSeq(s, i + 1, Len(s))

\* `repeat ... to 2 by -1` / `close window i`
HostCloseWindow ==
    /\ hpc = "closing"
    /\ closeIdx >= 2
    /\ windows' = RemoveAt(windows, closeIdx)
    /\ closed' = Append(closed, closeIdx)
    /\ closeIdx' = closeIdx - 1
    /\ UNCHANGED <<ctl, hpc, needle, attempt, tabs, tabPos, tabIndex, delay, selected,
                   activated, sentinel, firstMatch>>

\* The cleanup payload's `if err != nil { return err }`.
CleanupFail ==
    /\ pc = "cleanup_wait"
    /\ hpc = "count" \/ (hpc = "closing" /\ closeIdx >= 2)
    /\ \E e \in HostErrors :
        /\ raised' = e
        /\ result' = ReturnErr(e)
    /\ trace' = Append(Append(trace, "cleanup_err"), "return")
    /\ pc' = "done"
    /\ hpc' = "idle"
    /\ UNCHANGED <<cli, search, incognito, wasRunning, probeReply, escaped, payload,
                   output>>
    /\ UNCHANGED <<needle, attempt, tabs, tabPos, tabIndex, delay, selected, activated,
                   sentinel, firstMatch, windows, closeIdx, closed>>

\* The cleanup payload ran to its end.
CleanupReturn ==
    /\ pc = "cleanup_wait"
    /\ hpc = "closing"
    /\ closeIdx < 2
    /\ trace' = Append(trace, "cleanup_ret")
    /\ pc' = "interpret"
    /\ hpc' = "idle"
    /\ UNCHANGED <<cli, search, incognito, wasRunning, probeReply, escaped, payload,
                   output, result, raised>>
    /\ UNCHANGED <<needle, attempt, tabs, tabPos, tabIndex, delay, selected, activated,
                   sentinel, firstMatch, windows, closeIdx, closed>>

\* ---------------------------------------------------------- the result

\* Variant that takes only `found` for success.
InterpretFoundOnly(out, s) ==
    IF TrimSpace(out) = FoundStr
    THEN [kind |-> "ok", err |-> "", text |-> << >>]
    ELSE [kind |-> "notfound", err |-> "", text |-> NotFoundText(s)]

\* Variant that reports every outcome as success.
InterpretAlwaysOk(out, s) == [kind |-> "ok", err |-> "", text |-> << >>]

\* if TrimSpace(output) == "not_found" { return fmt.Errorf(...) }; return nil
InterpretResult(out, s) ==
    IF TrimSpace(out) = NotFoundStr
    THEN [kind |-> "notfound", err |-> "", text |-> NotFoundText(s)]
    ELSE [kind |-> "ok", err |-> "", text |-> << >>]

Interpret ==
    /\ pc = "interpret"
    /\ result' = InterpretResult(output, search)
    /\ trace' = Append(trace, "return")
    /\ pc' = "done"
    /\ UNCHANGED <<cli, search, incognito, wasRunning, probeReply, escaped,
                   payload, output, raised, host>>

Next ==
    \/ Probe
    \/ Compose
    \/ IssuePrimary
    \/ PrimaryFail
    \/ PrimaryReturn
    \/ HostMakeWindow
    \/ HostBeginAttempt
    \/ HostScanTab
    \/ HostEndAttempt
    \/ IssueCleanup
    \/ HostCount
    \/ HostCloseWindow
    \/ CleanupFail
    \/ CleanupReturn
    \/ Interpret

Spec == Init /\ [][Next]_vars


\* ------------------------------------ the interpreter on any payload output

\* What a primary payload that ran to its end may have handed back: the two
\* sentinels, and texts the interpreter does not know.
PayloadReturns ==
    { FoundStr,
      NotFoundStr,
      << >>,
      NotFoundStr \o <<" ">>,
      <<"n", "o", "t", " ", "f", "o", "u", "n", "d">>,
      <<"m", "i", "s", "s", "i", "n", "g", " ", "v", "a", "l", "u", "e">> }

\* windowCreateWithFocus right after the primary payload returned.
InitOutputs ==
    /\ search \in SearchStrings
    /\ incognito \in BOOLEAN
    /\ wasRunning \in BOOLEAN
    /\ sentinel \in PayloadReturns
    /\ output = sentinel \o <<"\n">>
    /\ pc = AfterPrimary(wasRunning, output)
    /\ probeReply = NoReply
    /\ escaped = Escape(search)
    /\ payload = [incognito |-> incognito, literal |-> Escape(search)]
    /\ result = NoResult
    /\ raised = ""
    /\ args = << >>
    /\ argPos = 0
    /\ calls = << >>
    /\ trace = <<"probe", "probe_ret", "primary", "primary_ret">>
    /\ hpc = "idle"
    /\ needle = << >>
    /\ attempt = 0
    /\ tabs = << >>
    /\ tabPos = 0
    /\ tabIndex = 0
    /\ delay = 0
    /\ selected = 0
    /\ activated = TRUE
    /\ firstMatch = 0
    /\ windows = <<[id |-> 0, incognito |-> incognito]>>
    /\ closeIdx = 0
    /\ closed = << >>

NextOutputs ==
    \/ IssueCleanup
    \/ HostCount
    \/ HostCloseWindow
    \/ CleanupFail
    \/ CleanupReturn
    \/ Interpret

SpecOutputs == InitOutputs /\ [][NextOutputs]_vars

\* ------------------------------------------------------- the close command

DigitChars == <<"0", "1", "2", "3", "4", "5", "6", "7", "8", "9">>

IsDigit(c) == \E i \in 1..Len(DigitChars) : DigitChars[i] = c

DigitVal(c) == (CHOOSE i \in 1..Len(DigitChars) : DigitChars[i] = c) - 1

RECURSIVE DigitsValue(_, _)
DigitsValue(s, acc) ==
    IF s = << >> THEN acc
    ELSE DigitsValue(Tail(s), acc * 10 + DigitVal(Head(s)))

\* strconv.Atoi on a short text: an optional sign, then one or more digits.
Atoi(s) ==
    LET signed == s # << >> /\ Head(s) \in {"-", "+"}
        body == IF signed THEN Tail(s) ELSE s
    IN  IF body = << >> \/ \E i \in 1..Len(body) : ~IsDigit(body[i])
        THEN [ok |-> FALSE, val |-> 0]
        ELSE [ok |-> TRUE,
              val |-> IF signed /\ Head(s) = "-"
                      THEN 0 - DigitsValue(body, 0)
                      ELSE DigitsValue(body, 0)]

\* Identifiers a user may give to the close command.
IdPool ==
    { <<"1">>, <<"2">>, <<"1", "2">>, <<"-", "1">>, <<"x">>, << >> }

RECURSIVE IdListsOfLen(_)
IdListsOfLen(n) ==
    IF n = 0 THEN {<< >>}
    ELSE { <<a>> \o l : a \in IdPool, l \in IdListsOfLen(n - 1) }

IdLists == UNION { IdListsOfLen(n) : n \in 0..MaxArgs }

\* The window `window k` names among n windows: the k-th, or counted from the
\* back for a negative k; 0 when there is none.
TargetIndex(k, n) ==
    LET i == IF k < 0 THEN n + 1 + k ELSE k
    IN  IF i \in 1..n THEN i ELSE 0

ParseErr == [kind |-> "parse", err |-> "", text |-> << >>]
Ok == [kind |-> "ok", err |-> "", text |-> << >>]

\* The close command's RunE, with the windows the application has.
InitClose ==
    /\ args \in IdLists
    /\ argPos = 1
    /\ calls = << >>
    /\ pc = "close"
    /\ \E n \in 0..MaxOther : windows = OtherWindows(n)
    /\ search = << >>
    /\ incognito = FALSE
    /\ wasRunning = TRUE
    /\ probeReply = NoReply
    /\ escaped = << >>
    /\ payload = [incognito |-> FALSE, literal |-> << >>]
    /\ output = << >>
    /\ result = NoResult
    /\ raised = ""
    /\ trace = << >>
    /\ hpc = "idle"
    /\ needle = << >>
    /\ attempt = 0
    /\ tabs = << >>
    /\ tabPos = 0
    /\ tabIndex = 0
    /\ delay = 0
    /\ selected = 0
    /\ activated = FALSE
    /\ sentinel = << >>
    /\ firstMatch = 0
    /\ closeIdx = 0
    /\ closed = << >>

closeFrame == <<search, incognito, wasRunning, probeReply, escaped, payload,
                output, trace, hpc, needle, attempt, tabs, tabPos, tabIndex,
                delay, selected, activated, sentinel, firstMatch, closeIdx,
                closed>>

\* len(args) == 0: `tell front window to close` went through.
CloseFront ==
    /\ pc = "close"
    /\ args = << >>
    /\ windows # << >>
    /\ calls' = Append(calls, [target |-> "front", index |-> 0])
    /\ windows' = Tail(windows)
    /\ result' = Ok
    /\ pc' = "done"
    /\ UNCHANGED <<args, argPos, raised, closeFrame>>

\* len(args) == 0: the call failed (always so when there is no window).
CloseFrontFail ==
    /\ pc = "close"
    /\ args = << >>
    /\ calls' = Append(calls, [target |-> "front", index |-> 0])
    /\ \E e \in HostErrors :
        /\ raised' = e
        /\ result' = ReturnErr(e)
    /\ pc' = "done"
    /\ UNCHANGED <<args, argPos, windows, closeFrame>>

\* Variant that passes over an identifier that is not a number.
CloseParseFailSkipping ==
    /\ pc = "close"
    /\ argPos <= Len(args)
    /\ ~Atoi(args[argPos]).ok
    /\ argPos' = argPos + 1
    /\ UNCHANGED <<args, calls, result, raised, pc, windows, closeFrame>>

\* windowID, err := strconv.Atoi(id); if err != nil { return err }
CloseParseFail ==
    /\ pc = "close"
    /\ argPos <= Len(args)
    /\ ~Atoi(args[argPos]).ok
    /\ result' = ParseErr
    /\ pc' = "done"
    /\ UNCHANGED <<args, argPos, calls, raised, windows, closeFrame>>

\* `tell window %d to close` went through; the loop goes on.
CloseWindow ==
    /\ pc = "close"
    /\ argPos <= Len(args)
    /\ Atoi(args[argPos]).ok
    /\ LET k == Atoi(args[argPos]).val
           i == TargetIndex(k, Len(windows))
       IN  /\ i # 0
           /\ calls' = Append(calls, [target |-> "window", index |-> k])
           /\ windows' = RemoveAt(windows, i)
    /\ argPos' = argPos + 1
    /\ UNCHANGED <<args, result, raised, pc, closeFrame>>

\* `tell window %d to close` failed (always so when there is no such window).
CloseWindowFail ==
    /\ pc = "close"
    /\ argPos <= Len(args)
    /\ Atoi(args[argPos]).ok
    /\ calls' = Append(calls, [target |-> "window",
                               index |-> Atoi(args[argPos]).val])
    /\ \E e \in HostErrors :
        /\ raised' = e
        /\ result' = ReturnErr(e)
    /\ pc' = "done"
    /\ UNCHANGED <<args, argPos, windows, closeFrame>>

\* The loop is through: return nil.
CloseDone ==
    /\ pc = "close"
    /\ args # << >>
    /\ argPos > Len(args)
    /\ result' = Ok
    /\ pc' = "done"
    /\ UNCHANGED <<args, argPos, calls, raised, windows, closeFrame>>

NextClose ==
    \/ CloseFront
    \/ CloseFrontFail
    \/ CloseParseFail
    \/ CloseWindow
    \/ CloseWindowFail
    \/ CloseDone

SpecClose == InitClose /\ [][NextClose]_vars

\* ------------------------------------------------------ the create command

\* Values of --focus: none, or a search string of one character.
FocusValues == {<< >>} \cup StringsOfLen(1)

\* The optional [url] argument (cobra.MaximumNArgs(1)).
UrlArgs == { << >>, << <<"u">> >> }

\* The create command's RunE as it is entered.
InitCreate ==
    /\ search \in FocusValues
    /\ incognito \in BOOLEAN
    /\ args \in UrlArgs
    /\ pc = "create"
    /\ wasRunning = TRUE
    /\ probeReply = NoReply
    /\ escaped = << >>
    /\ payload = [incognito |-> FALSE, literal |-> << >>]
    /\ output = << >>
    /\ result = NoResult
    /\ raised = ""
    /\ argPos = 0
    /\ calls = << >>
    /\ trace = << >>
    /\ hpc = "idle"
    /\ needle = << >>
    /\ attempt = 0
    /\ tabs = << >>
    /\ tabPos = 0
    /\ tabIndex = 0
    /\ delay = 0
    /\ selected = 0
    /\ activated = FALSE
    /\ sentinel = << >>
    /\ firstMatch = 0
    /\ windows = << >>
    /\ closeIdx = 0
    /\ closed = << >>

\* Variant that takes the plain path whatever --focus holds.
DispatchPlainAlways(f) == "plain_make"

\* if flags.Focus != "" { return windowCreateWithFocus(...) }
DispatchTarget(f) == IF f # << >> THEN "probe" ELSE "plain_make"

Dispatch ==
    /\ pc = "create"
    /\ pc' = DispatchTarget(search)
    /\ UNCHANGED <<cli, search, incognito, wasRunning, probeReply, escaped,
                   payload, output, result, raised, trace, host>>

\* Where the plain path goes once the window is made.
AfterMake(a) == IF Len(a) > 0 THEN "plain_tab" ELSE "plain_activate"

\* The plain path's first payload went through: the new window is the front
\* one, and the incognito script also activates.
PlainMake ==
    /\ pc = "plain_make"
    /\ trace' = Append(Append(trace, "make"), "make_ret")
    /\ windows' = <<[id |-> 0, incognito |-> incognito]>> \o windows
    /\ activated' = incognito
    /\ pc' = AfterMake(args)
    /\ UNCHANGED <<cli, search, incognito, wasRunning, probeReply, escaped,
                   payload, output, result, raised>>
    /\ UNCHANGED <<hpc, needle, attempt, tabs, tabPos, tabIndex, delay, selected,
                   sentinel, firstMatch, closeIdx, closed>>

\* The make-window payload failed: if err != nil { return err }
PlainMakeFail ==
    /\ pc = "plain_make"
    /\ trace' = Append(Append(Append(trace, "make"), "make_err"), "return")
    /\ \E e \in HostErrors :
        /\ raised' = e
        /\ result' = ReturnErr(e)
    /\ pc' = "done"
    /\ UNCHANGED <<cli, search, incognito, wasRunning, probeReply, escaped,
                   payload, output, host>>

\* len(args) > 0: `make new tab with properties {URL:...}` in the front window.
PlainTab ==
    /\ pc = "plain_tab"
    /\ trace' = Append(Append(trace, "newtab"), "newtab_ret")
    /\ tabs' = Append(tabs, [readable |-> TRUE, title |-> args[1]])
    /\ pc' = "plain_activate"
    /\ UNCHANGED <<cli, search, incognito, wasRunning, probeReply, escaped,
                   payload, output, result, raised>>
    /\ UNCHANGED <<hpc, needle, attempt, tabPos, tabIndex, delay, selected,
                   activated, sentinel, firstMatch, windows, closeIdx, closed>>

\* The new-tab payload failed: if err != nil { return err }
PlainTabFail ==
    /\ pc = "plain_tab"
    /\ trace' = Append(Append(Append(trace, "newtab"), "newtab_err"), "return")
    /\ \E e \in HostErrors :
        /\ raised' = e
        /\ result' = ReturnErr(e)
    /\ pc' = "done"
    /\ UNCHANGED <<cli, search, incognito, wasRunning, probeReply, escaped,
                   payload, output, host>>

\* `tell application "Arc" to activate`, then return nil.
PlainActivate ==
    /\ pc = "plain_activate"
    /\ trace' = Append(Append(Append(trace, "activate"), "activate_ret"), "return")
    /\ activated' = TRUE
    /\ result' = Ok
    /\ pc' = "done"
    /\ UNCHANGED <<cli, search, incognito, wasRunning, probeReply, escaped,
                   payload, output, raised>>
    /\ UNCHANGED <<hpc, needle, attempt, tabs, tabPos, tabIndex, delay, selected,
                   sentinel, firstMatch, windows, closeIdx, closed>>

\* The activate payload failed: if err != nil { return err }
PlainActivateFail ==
    /\ pc = "plain_activate"
    /\ trace' = Append(Append(Append(trace, "activate"), "activate_err"), "return")
    /\ \E e \in HostErrors :
        /\ raised' = e
        /\ result' = ReturnErr(e)
    /\ pc' = "done"
    /\ UNCHANGED <<cli, search, incognito, wasRunning, probeReply, escaped,
                   payload, output, host>>

NextCreate ==
    \/ Dispatch
    \/ PlainMake
    \/ PlainMakeFail
    \/ PlainTab
    \/ PlainTabFail
    \/ PlainActivate
    \/ PlainActivateFail
    \/ Next

SpecCreate == InitCreate /\ [][NextCreate]_vars

\* ---------------------------------------------------------------- claims

InTrace(e) == \E i \in 1..Len(trace) : trace[i] = e

\* Whether event a stands before event b in the trace.
Before(a, b) ==
    \E i, j \in 1..Len(trace) : i < j /\ trace[i] = a /\ trace[j] = b

\* C1 as stated: at the end of every invocation the cleanup payload has been
\* issued if and only if wasRunning is false.
C1_CleanupIffNotRunning ==
    pc = "done" => (InTrace("cleanup") <=> ~wasRunning)

\* C1, amended: in every invocation whose primary payload ran to completion,
\* the cleanup payload is issued if and only if wasRunning is false, whether
\* the outcome was found or not_found; with the application already running
\* and a tab matching, the invocation succeeds without a cleanup payload; an
\* invocation whose primary payload failed issues no cleanup payload.
C1_CleanupGating ==
    /\ (InTrace("primary_ret") /\ pc \in {"cleanup_wait", "interpret", "done"})
          => (InTrace("cleanup") <=> ~wasRunning)
    /\ InTrace("cleanup") => (~wasRunning /\ InTrace("primary_ret"))
    /\ (pc = "done" /\ wasRunning /\ sentinel = FoundStr)
          => (result.kind = "ok" /\ ~InTrace("cleanup"))
    /\ InTrace("primary_err") => ~InTrace("cleanup")

\* Scenario C: cold start, the search matches on attempt 3, success, cleanup.
C1_Witness ==
    /\ pc = "done"
    /\ ~wasRunning
    /\ sentinel = FoundStr
    /\ firstMatch = 3
    /\ result.kind = "ok"
    /\ InTrace("cleanup_ret")

\* C2: a cleanup payload is issued only after the primary payload has
\* returned and before the invocation returns; no invocation with wasRunning
\* false returns the not-found error without the cleanup payload having been
\* issued, and finished, first.
C2_CleanupOrdering ==
    /\ InTrace("cleanup") =>
          /\ Before("primary_ret", "cleanup")
          /\ ~Before("return", "cleanup")
    /\ pc = "cleanup_wait" => result = NoResult
    /\ (result.kind = "notfound" /\ ~wasRunning) =>
          /\ Before("cleanup", "cleanup_ret")
          /\ Before("cleanup_ret", "return")

C2_Witness ==
    /\ result.kind = "notfound"
    /\ trace = <<"probe", "probe_ret", "primary", "primary_ret", "cleanup",
                 "cleanup_ret", "return">>

\* C3 as stated: whenever the primary payload's trimmed output is not_found,
\* the invocation ends with the not-found error, whatever the cleanup
\* payload's outcome.
C3_NotFoundAlwaysReturned ==
    (pc = "done" /\ TrimSpace(output) = NotFoundStr)
        => result.kind = "notfound"

\* C3, amended: whenever the primary payload's trimmed output is not_found,
\* the invocation ends with the not-found error for the search string, after
\* the cleanup payload (if wasRunning is false) has returned -- unless the
\* cleanup payload fails, in which case the invocation ends with the cleanup
\* payload's error instead.
C3_NotFoundAfterCleanup ==
    (pc = "done" /\ TrimSpace(output) = NotFoundStr) =>
        IF InTrace("cleanup_err")
        THEN result.kind = "transport" /\ result.err \in HostErrors
        ELSE /\ result.kind = "notfound"
             /\ result.text = ErrPrefix \o GoQuote(search)
             /\ ~wasRunning => Before("cleanup_ret", "return")

C3_Witness ==
    /\ pc = "done"
    /\ TrimSpace(output) = NotFoundStr
    /\ result.kind = "notfound"
    /\ ~wasRunning
    /\ closed = <<3, 2>>

IsPlain(s) == \A i \in 1..Len(s) : s[i] \notin {BS, DQ}

\* The text of the not-found error after its fixed beginning.
QuotedPart(text) == SubSeq(text, Len(ErrPrefix) + 1, Len(text))

C5_ProbeConservative ==
    /\ pc = "probe" => wasRunning
    /\ pc = "compose" =>
          (~wasRunning <=>
              (~probeReply.err /\ TrimSpace(probeReply.out) = FalseStr))
    /\ InTrace("probe_err") => (wasRunning /\ ~InTrace("cleanup"))
    /\ InTrace("cleanup") => InTrace("probe_ret")

\* The probe failed while handing back the text `false`.
C5_Witness ==
    /\ pc = "compose"
    /\ probeReply.err
    /\ TrimSpace(probeReply.out) = FalseStr
    /\ wasRunning

\* The inverse of the escaping rule: undo the quote step, then the backslash
\* step.
Unescape(e) ==
    ReplaceAll(ReplaceAll(e, <<BS, DQ>>, <<DQ>>), <<BS, BS>>, <<BS>>)

Composed == pc \notin {"probe", "compose"}

\* C6: unescaping the escaped form of the search string gives the search
\* string back.
C6_EscapeRoundTrip == Composed => Unescape(escaped) = search

C6_Witness ==
    /\ Composed
    /\ search = <<BS, DQ>>
    /\ escaped = <<BS, BS, BS, DQ>>

\* Number of backslashes standing immediately before position i of e.
RECURSIVE RunBefore(_, _)
RunBefore(e, i) ==
    IF i > 1 /\ e[i - 1] = BS THEN 1 + RunBefore(e, i - 1) ELSE 0

\* C7: in the escaped form every double quote follows an odd-length run of
\* backslashes and every run of backslashes not followed by a double quote
\* has even length, so the host reads the literal to its end and reads the
\* search string; a quote's escaping backslash is not doubled.
C7_EscapedCannotCloseLiteral ==
    Composed =>
        /\ \A i \in 1..Len(escaped) :
              /\ escaped[i] = DQ => RunBefore(escaped, i) % 2 = 1
              /\ escaped[i] \notin {BS, DQ} => RunBefore(escaped, i) % 2 = 0
        /\ RunBefore(escaped, Len(escaped) + 1) % 2 = 0
        /\ ParseLiteral(escaped).ok
        /\ hpc # "fault"
        /\ search = <<"A", DQ>> => escaped = <<"A", BS, DQ>>

C7_Witness ==
    /\ pc = "primary_wait"
    /\ hpc = "make"
    /\ search = <<DQ, BS>>
    /\ escaped = <<BS, DQ, BS, BS>>

\* C8: the payload has waited exactly 11 half units (5.5 time units) when it
\* returns not_found, whatever the tabs of each attempt were, and
\* 2 + (k - 1) half units, never more than 11, when it returns found on
\* attempt k.
C8_RetryDelay ==
    /\ sentinel = NotFoundStr => delay = 11
    /\ (hpc = "returned" /\ sentinel = FoundStr) =>
          /\ delay = 2 + (attempt - 1)
          /\ delay <= 11
    /\ delay <= 11

C8_Witness ==
    /\ hpc = "returned"
    /\ sentinel = NotFoundStr
    /\ Len(tabs) = MaxTabs
    /\ delay = 11

\* Whether the tab's title can be read and contains s, letter case aside.
Hit(tab, s) == tab.readable /\ ContainsIgnoringCase(tab.title, s)

Count(e) == Cardinality({ i \in 1..Len(trace) : trace[i] = e })

\* C12: an error of the script executor for the primary or the cleanup payload
\* is the invocation's result, unchanged, and ends the invocation: the probe,
\* primary and cleanup payloads are each executed at most once and nothing is
\* executed after the primary or the cleanup payload has failed.
C12_TransportErrorReturned ==
    /\ Count("probe") <= 1 /\ Count("primary") <= 1 /\ Count("cleanup") <= 1
    /\ \A e \in {"primary_err", "cleanup_err"} :
          InTrace(e) =>
              /\ pc = "done"
              /\ result.kind = "transport"
              /\ raised \in HostErrors
              /\ result.err = raised
              /\ Len(trace) >= 2
              /\ trace[Len(trace) - 1] = e
              /\ trace[Len(trace)] = "return"
    /\ result.kind = "transport" =>
          (InTrace("primary_err") \/ InTrace("cleanup_err"))
    /\ ~(InTrace("primary_err") /\ InTrace("cleanup_err"))

C12_Witness ==
    /\ InTrace("cleanup_err")
    /\ raised = "host unreachable"
    /\ result.err = "host unreachable"
    /\ closed = <<3>>

IsIssue(e) == e \in {"probe", "primary", "cleanup"}

\* C15: the probe is executed exactly once, before the primary payload; the
\* payloads are issued in the order probe, primary, cleanup; the cleanup is
\* issued on the value the probe left in wasRunning, which no later step
\* changes.
C15_ProbeOnceAndFixed ==
    /\ [](/\ pc # "probe" => (Count("probe") = 1 /\ trace[1] = "probe")
          /\ SelectSeq(trace, IsIssue) \in
                { << >>, <<"probe">>, <<"probe", "primary">>,
                  <<"probe", "primary", "cleanup">> }
          /\ InTrace("cleanup") => (~wasRunning /\ trace[2] = "probe_ret"))
    /\ [][pc # "probe" => wasRunning' = wasRunning]_vars

C15_Witness ==
    /\ pc = "done"
    /\ ~wasRunning
    /\ SelectSeq(trace, IsIssue) = <<"probe", "primary", "cleanup">>
    /\ result.kind = "ok"

\* C16: the cleanup payload, finding n windows, closes the windows at indices
\* n, n - 1, ..., 2 in that order and never index 1; when it has run to its
\* end only the window that was at index 1, the new one, is left; with one
\* window it closes nothing.
C16_CleanupClosesAllButFirst ==
    /\ \A i \in 1..Len(closed) :
          /\ closed[i] >= 2
          /\ i > 1 => closed[i] = closed[i - 1] - 1
    /\ hpc = "closing" =>
          /\ Len(windows) = closeIdx
          /\ closeIdx >= 1
          /\ windows[1].id = 0
          /\ closed # << >> => closed[Len(closed)] = closeIdx + 1
    /\ InTrace("cleanup_ret") =>
          /\ Len(windows) = 1
          /\ windows[1].id = 0
          /\ closed # << >> =>
                (closed[1] = Len(closed) + 1 /\ closed[Len(closed)] = 2)

C16_Witness ==
    /\ InTrace("cleanup_ret")
    /\ closed = <<3, 2>>
    /\ windows = <<[id |-> 0, incognito |-> TRUE]>>

\* C17: a title that cannot be read does not end the scan of an attempt: the
\* scan reaches the end of the tabs only when no tab of the attempt has a
\* readable title containing the search string, and a matching tab behind an
\* unreadable one yields found.
C17_ReadFailureIsolated ==
    /\ hpc = "scan" => tabPos \in 1..(Len(tabs) + 1)
    /\ (hpc = "scan" /\ tabPos > Len(tabs)) => ~HasMatch(tabs, search)
    /\ (hpc = "returned" /\ sentinel = FoundStr) =>
          /\ tabPos \in 1..Len(tabs)
          /\ tabs[tabPos].readable
          /\ ContainsIgnoringCase(tabs[tabPos].title, search)
    /\ (hpc = "returned" /\ sentinel = NotFoundStr) => ~HasMatch(tabs, search)

\* Found on the second tab, the first one's title being unreadable.
C17_Witness ==
    /\ hpc = "returned"
    /\ sentinel = FoundStr
    /\ attempt = 1
    /\ tabPos = 2
    /\ ~tabs[1].readable

\* C18: tabIndex is the position of the tab under examination, also behind
\* tabs whose title could not be read, so the tab selected on a match is the
\* tab whose title matched.
C18_TabIndexIsPosition ==
    /\ hpc = "scan" => tabIndex = tabPos
    /\ (hpc = "returned" /\ sentinel = FoundStr) =>
          /\ selected = tabPos
          /\ selected \in 1..Len(tabs)
          /\ Hit(tabs[selected], search)

C18_Witness ==
    /\ hpc = "returned"
    /\ sentinel = FoundStr
    /\ attempt = 3
    /\ selected = 2
    /\ ~tabs[1].readable
    /\ search = <<DQ>>

\* C19: when the primary payload fails, the invocation returns that error at
\* once and issues no cleanup payload, also with wasRunning false: no window
\* is closed.
C19_PrimaryErrorSkipsCleanup ==
    InTrace("primary_err") =>
        /\ pc = "done"
        /\ result.kind = "transport"
        /\ result.err = raised
        /\ ~InTrace("cleanup")
        /\ closed = << >>
        /\ SubSeq(trace, 3, Len(trace)) = <<"primary", "primary_err", "return">>

\* The payload failed after the window was made, the application not having
\* been running.
C19_Witness ==
    /\ InTrace("primary_err")
    /\ ~wasRunning
    /\ windows # << >>
    /\ attempt = 2

\* ---- C14 (under SpecOutputs)

\* C14: when the primary payload and any cleanup payload ran without a
\* transport error, the invocation fails exactly when the trimmed primary
\* output is not_found; found, the empty text and every unrecognized text
\* give success.
C14_OnlyNotFoundFails ==
    (pc = "done" /\ ~InTrace("primary_err") /\ ~InTrace("cleanup_err")) =>
        /\ result.kind \in {"ok", "notfound"}
        /\ result.kind = "notfound" <=> TrimSpace(output) = NotFoundStr
        /\ sentinel \in {NotFoundStr, NotFoundStr \o <<" ">>}
               => result.kind = "notfound"
        /\ sentinel \in PayloadReturns \ {NotFoundStr, NotFoundStr \o <<" ">>}
               => result.kind = "ok"

\* An empty output after a cleanup that went through: success.
C14_Witness ==
    /\ pc = "done"
    /\ sentinel = << >>
    /\ ~wasRunning
    /\ InTrace("cleanup_ret")
    /\ result.kind = "ok"

\* ---- C11 (under SpecClose)

\* The identifiers before the first one that is not a number.
RECURSIVE ParsablePrefix(_)
ParsablePrefix(l) ==
    IF l = << >> \/ ~Atoi(Head(l)).ok THEN << >>
    ELSE <<Head(l)>> \o ParsablePrefix(Tail(l))

CallFor(id) == [target |-> "window", index |-> Atoi(id).val]

\* C11: with identifiers, the close calls issued are, in argument order, one
\* for each identifier of a prefix of those before the first unparsable one;
\* a parse failure ends the command with exactly that prefix called, a failing
\* close call is the last call, and success means every identifier was called;
\* a window once closed never comes back.  With no identifier there is exactly
\* one call, for the front window.
C11_CloseFailFast ==
    /\ [](/\ args = << >> =>
              /\ calls \in {<< >>, <<[target |-> "front", index |-> 0]>>}
              /\ pc = "done" => Len(calls) = 1
          /\ args # << >> =>
              /\ Len(calls) <= Len(ParsablePrefix(args))
              /\ \A i \in 1..Len(calls) : calls[i] = CallFor(args[i])
              /\ (pc = "done" /\ result.kind = "parse") =>
                     /\ Len(calls) = Len(ParsablePrefix(args))
                     /\ Len(calls) < Len(args)
              /\ (pc = "done" /\ result.kind = "transport") =>
                     /\ Len(calls) >= 1
                     /\ argPos = Len(calls)
              /\ (pc = "done" /\ result.kind = "ok") =>
                     Len(calls) = Len(args)
              /\ pc = "done" => result.kind \in {"parse", "transport", "ok"})
    /\ [][/\ Len(windows') <= Len(windows)
          /\ \A i \in 1..Len(windows') :
                \E j \in 1..Len(windows) : windows'[i] = windows[j]
          /\ pc = "done" => windows' = windows]_vars

\* "1" then "x": one close call, for window 1, then the parse failure.
C11_Witness ==
    /\ pc = "done"
    /\ args = << <<"1">>, <<"x">> >>
    /\ calls = <<[target |-> "window", index |-> 1]>>
    /\ result.kind = "parse"
    /\ Len(windows) = 1

\* ---- C20 (under SpecCreate)

IsPlainIssue(e) == e \in {"make", "newtab", "activate"}

\* The payloads of the plain path, in the order the code issues them.
PlainOrder(a) ==
    <<"make">> \o (IF Len(a) > 0 THEN <<"newtab">> ELSE << >>) \o <<"activate">>

IsPrefix(s, l) == Len(s) <= Len(l) /\ SubSeq(l, 1, Len(s)) = s

\* C20: with a non-empty --focus no payload of the plain path is issued, the
\* new-tab payload for a given URL included, and the first payload is the
\* probe; with an empty --focus no probe, primary or cleanup payload is
\* issued, the plain payloads issued are a prefix of make, new tab (when a URL
\* is given), activate, all of them on success, and a failed payload is the
\* last one issued.
C20_FocusReplacesPlainPath ==
    /\ search # << >> =>
        /\ SelectSeq(trace, IsPlainIssue) = << >>
        /\ trace # << >> => trace[1] = "probe"
        /\ pc = "done" => trace # << >>
    /\ search = << >> =>
        /\ SelectSeq(trace, IsIssue) = << >>
        /\ IsPrefix(SelectSeq(trace, IsPlainIssue), PlainOrder(args))
        /\ (pc = "done" /\ result.kind = "ok") =>
               SelectSeq(trace, IsPlainIssue) = PlainOrder(args)
        /\ (pc = "done" /\ result.kind # "ok") =>
               /\ result.kind = "transport"
               /\ Len(trace) >= 3
               /\ IsPlainIssue(trace[Len(trace) - 2])
               /\ trace[Len(trace)] = "return"
        /\ windows = << >> => ~InTrace("newtab") /\ ~InTrace("activate")

\* A URL given along with --focus: the protocol ran to success and no tab was
\* made for the URL.
C20_Witness ==
    /\ pc = "done"
    /\ search # << >>
    /\ args # << >>
    /\ result.kind = "ok"
    /\ InTrace("primary_ret")
    /\ ~InTrace("newtab")

====
